---- MODULE Spec2Model ----
(***************************************************************************)
(* State-machine model of the bitpoc-explorer HD wallet engine:            *)
(*   - WalletProvider (src/src/utils/Wallet.tsx, second revision,          *)
(*     lines 160-444): React state, its effects and the gap-limit scan;    *)
(*   - WalletDashboard send path (src/unnamed/part_010 and                 *)
(*     src/src/pages/WalletDashboard.tsx).                                 *)
(* A handler and the effect cascade React runs after it form one action;   *)
(* every await in an async function is a separate step.                    *)
(***************************************************************************)
EXTENDS Integers, Sequences, FiniteSets, TLC

\* ------------------------------------------------------------------------
\* Program constants
\* ------------------------------------------------------------------------
GAP_LIMIT == 20
LOOKAHEAD == 1

\* ------------------------------------------------------------------------
\* Bounds of the model
\* ------------------------------------------------------------------------
\* Highest derivation index at which the activity oracle may report activity.
MaxActiveIndex == 3
\* nextReceiveAddress is not pressed any more once the index is this far
\* above GAP_LIMIT.
MaxExtraReceive == 2

MaxReceiveIndex == GAP_LIMIT + MaxExtraReceive

\* ------------------------------------------------------------------------
\* Value domains
\* ------------------------------------------------------------------------
NoMnemonic == "null"
Mnemonics == {"m1"}
Passphrases == {"", "pw"}
Networks == {"mainnet", "testnet4"}
NoRoot == <<>>
\* localStorage.getItem(STORAGE_KEY) === null
NoStorage == [mnemonic |-> NoMnemonic, passphrase |-> "", currentReceiveIndex |-> 0]

\* NetworkProvider: apiBase is a function of the selected network.
ApiBase(net) ==
    IF net = "mainnet" THEN "https://mempool.space/api"
    ELSE "https://mempool.space/testnet4/api"

\* bip39.mnemonicToSeedSync + bip32.fromSeed: the root key is a function of
\* (mnemonic, passphrase), different for different pairs.
DeriveRoot(m, p) == IF m = NoMnemonic THEN NoRoot ELSE <<m, p>>

\* root.derivePath("m/84'/1'/0'/0/i") + payments.p2wpkh: the address of a
\* root at an index; different (root, index) pairs give different addresses.
AddressAt(r, i) == [root |-> r, index |-> i]

\* (the derivation loop stopping one index early: i < currentReceiveIndex)
DeriveAllExclusive(r, cri) ==
    IF r = NoRoot THEN <<>>
    ELSE [k \in 1..cri |-> AddressAt(r, k - 1)]

\* The "derive all addresses up to current index" effect.
DeriveAll(r, cri) ==
    IF r = NoRoot THEN <<>>
    ELSE [k \in 1..(cri + 1) |-> AddressAt(r, k - 1)]

\* visibleAddresses: derived.slice(max(0, length - 10 - LOOKAHEAD)).
Visible(derived) ==
    LET start == IF Len(derived) - 10 - LOOKAHEAD > 0
                 THEN Len(derived) - 10 - LOOKAHEAD ELSE 0
    IN  SubSeq(derived, start + 1, Len(derived))

\* The activity oracle's answers to GET /address/<addr>: chain_stats and
\* mempool_stats counters, or a failed request.
FailedLookup == [ok |-> FALSE, chain_tx_count |-> 0, chain_funded_txo_sum |-> 0,
                 mempool_tx_count |-> 0]
AddressStats ==
    [ok : {TRUE}, chain_tx_count : {0, 1}, chain_funded_txo_sum : {0, 1000},
     mempool_tx_count : {0, 1}]
\* chain_stats.tx_count > 0 implies the address was funded or spent on chain;
\* the combinations an explorer can return.
Responses(i) ==
    {FailedLookup}
    \cup {d \in AddressStats :
            /\ (d.chain_funded_txo_sum > 0 => d.chain_tx_count > 0)
            /\ (i > MaxActiveIndex =>
                    d.chain_tx_count = 0 /\ d.mempool_tx_count = 0)}

AllAnswers == {FailedLookup} \cup AddressStats
\* Answers of a reachable oracle that sees no unconfirmed transaction.
PlainAnswers == {d \in AddressStats : d.mempool_tx_count = 0}

\* const hasActivity = data.chain_stats.tx_count > 0 ||
\*                     data.chain_stats.funded_txo_sum > 0;
HasActivity(d) == d.chain_tx_count > 0 \/ d.chain_funded_txo_sum > 0

\* The address has ever received funds or sent a transaction, on chain or
\* in the mempool, as the oracle's answer tells it.
EverUsed(d) == d.ok /\ (d.chain_tx_count > 0 \/ d.chain_funded_txo_sum > 0
                        \/ d.mempool_tx_count > 0)

\* newIndex at the end of scanForActivity.
NewIndex(maxUsed) ==
    IF maxUsed >= 0 THEN maxUsed + GAP_LIMIT + LOOKAHEAD - 1
    ELSE GAP_LIMIT + LOOKAHEAD - 1

\* ------------------------------------------------------------------------
\* WalletDashboard: two revisions of the page are in the repository,
\*   "r1"  src/src/pages/WalletDashboard.tsx
\*   "r2"  src/unnamed/part_010 (Max button, refreshUtxos, dust check)
\* ------------------------------------------------------------------------
Revisions == {"r1", "r2"}

\* Dust threshold written into both revisions of performSend.
DUST == 546
\* performSend (r1): const fee = estimatedFee || Math.ceil(feeRate * 250)
FALLBACK_VSIZE == 250
\* sequence: 0xfffffffd (r1), and the library's default 0xffffffff (r2); held
\* as the 32-bit word read as a signed number (0xffffffff is -1).
SEQUENCE_RBF == -3
SEQUENCE_FINAL == -1

\* Bound: number of POST /tx requests in one behaviour.
MaxPosts == 2

\* Bounds: the input counts and fee rates (tenths of a sat/vB) over which
\* the fee estimate is compared with itself.
MaxInputs == 4
\* Bound: calls of rebuildTx followed.
MaxRebuilds == 2
\* Bound: refused imports followed.
MaxAlerts == 2
MaxFeeRate == 60

\* Fee rates are held in tenths of a sat/vB, so that 1.5 sat/vB is 15.
FeeRates == {15, 50}
\* useState(5)
DefaultFeeRate == 50
\* What the user may type as recipient: nothing, a valid address, garbage.
Recipients == {"", "rcpt", "bad"}
\* amountSats is the text of a number input: empty, or the digits of an integer.
NoAmount == <<>>
AmountText(n) == <<n>>
\* The amounts tried leave this much change (or lack this much, if negative).
ChangeCases == {-1, 0, DUST - 1, DUST, DUST + 1}

\* Math.ceil(a / b) for b > 0
CeilDiv(a, b) == IF a % b = 0 THEN a \div b ELSE (a \div b) + 1

\* parseInt(amountSats || '0') (r2); parseInt(amountSats) is NaN for '' (r1)
IsNaN(a) == a = NoAmount
ParseInt(a) == IF a = NoAmount THEN 0 ELSE a[1]

RECURSIVE SumValues(_)
SumValues(us) == IF us = <<>> THEN 0 ELSE Head(us).value + SumValues(Tail(us))

\* `${u.txid}:${u.vout}`
UtxoId(u) == <<u.txid, u.vout>>

\* utxos.filter(u => selectedUtxoIds.has(`${u.txid}:${u.vout}`))
Selected(us, ids) == SelectSeq(us, LAMBDA u : UtxoId(u) \in ids)

\* (the same without the filter: every fetched UTXO selected)
FetchedIds(us) == {UtxoId(us[k]) : k \in 1..Len(us)}

\* fetched.filter(u => u.status.confirmed).map(id)
ConfirmedIds(us) == {UtxoId(us[k]) : k \in {j \in 1..Len(us) : us[j].confirmed}}

\* The fee estimate effect of r2:
\*   vsize = Math.ceil(inputs * 57.5 + outputs * 43 + 10.5), outputs = recipient ? 2 : 1
\*   fee   = Math.ceil(feeRate * vsize), and 0 with no input selected
\* (the same estimate counting one output whatever the recipient)
EstimateVsizeR2OneOutput(inputs, rcpt) ==
    IF inputs = 0 THEN 0 ELSE CeilDiv(115 * inputs + 86 + 21, 2)
EstimateVsizeR2(inputs, rcpt) ==
    IF inputs = 0 THEN 0
    ELSE CeilDiv(115 * inputs + 86 * (IF rcpt # "" THEN 2 ELSE 1) + 21, 2)
\* setEstimatedFee(Math.ceil(feeRate * vsize)) for a number of selected inputs
FeeForR2(inputs, rcpt, rate) ==
    CeilDiv(rate * EstimateVsizeR2(inputs, rcpt), 10)
EstimateFeeR2(us, ids, rcpt, rate) ==
    FeeForR2(Len(Selected(us, ids)), rcpt, rate)

\* The fee estimate effect of r1:
\*   0 when nothing is selected, the amount is not positive or no recipient;
\*   else Math.ceil(feeRate * (inputs * 68 + 2 * 43 + 11))
FeeForR1(inputs, amt, rcpt, rate) ==
    IF inputs = 0 \/ ParseInt(amt) <= 0 \/ rcpt = ""
    THEN 0
    ELSE CeilDiv(rate * (inputs * 68 + 2 * 43 + 11), 10)
EstimateFeeR1(us, ids, amt, rcpt, rate) ==
    FeeForR1(Len(Selected(us, ids)), amt, rcpt, rate)

EstimateFee(r, us, ids, amt, rcpt, rate) ==
    IF r = "r1" THEN EstimateFeeR1(us, ids, amt, rcpt, rate)
    ELSE EstimateFeeR2(us, ids, rcpt, rate)

\* The UTXOs on chain when the page is opened (txid, vout, value, owner,
\* confirmation), for the wallet of mnemonic "m1" without passphrase.
GenesisChain ==
    << [txid |-> <<"t", 1>>, vout |-> 0, value |-> 100000,
        address |-> AddressAt(<<"m1", "">>, 0), confirmed |-> TRUE],
       [txid |-> <<"t", 3>>, vout |-> 1, value |-> 3000,
        address |-> AddressAt(<<"m1", "">>, 1), confirmed |-> FALSE] >>

NoTx == [inputs |-> <<>>, outputs |-> <<>>]
\* useState('') for txHash; a transaction id is a pair like <<"n", 1>>.
NoTxHash == <<>>
\* The address a recipient text decodes to; it is no address of any wallet.
ExternalAddress(text) == [root |-> <<"external", text>>, index |-> 0]
\* bitcoinjs address.toOutputScript: only a well-formed address is accepted.
ValidAddress(text) == text = "rcpt"
NoPlan == [totalInput |-> 0, amount |-> 0, fee |-> 0, change |-> 0]
\* No second call of performSend is in flight beside the one sendPc follows.
NoOverlap == [pc |-> "idle", tx |-> NoTx, left |-> <<>>, acc |-> <<>>]
\* No refresh of the page has completed.
NoRefresh == [log |-> <<>>, utxos |-> <<>>, selected |-> {}, repeats |-> FALSE]

VARIABLES
    \* WalletProvider state
    network, mnemonic, passphrase, allAddresses, visibleAddresses,
    currentReceiveIndex, root, isScanning,
    \* localStorage['bitpoc-wallet']
    storage,
    \* scanForActivity: position and locals of the (single) scan in flight
    scanPc, scanRoot, scanApi, index, maxUsedIndex, consecutiveUnused,
    \* observations of the scan in flight (history, not program state)
    lookups, lastLookupIndex, lastResponse, highestReported, highestEverUsed,
    allFailed

walletVars == <<network, mnemonic, passphrase, allAddresses, visibleAddresses,
                currentReceiveIndex, root, isScanning, storage>>
scanVars == <<scanPc, scanRoot, scanApi, index, maxUsedIndex, consecutiveUnused>>
obsVars == <<lookups, lastLookupIndex, lastResponse, highestReported,
             highestEverUsed, allFailed>>
VARIABLES
    \* which revision of the dashboard page runs
    rev,
    \* WalletDashboard state
    activeTab, recipient, amountSats, feeRate, sending, txHash, sendError,
    utxos, selectedUtxoIds, estimatedFee, showMainnetConfirm,
    \* the request for /v1/fees/recommended is in flight (r2)
    feesPending,
    \* refreshUtxos / getUtxos started from the page: addresses still to be
    \* queried and the UTXOs collected so far
    refreshPc, refreshLeft, refreshAcc,
    \* performSend: position, and the refresh it awaits after a broadcast (r2)
    sendPc, sendRefreshLeft, sendRefreshAcc,
    \* the explorer's view of the chain: unspent outputs, in listing order
    chain,
    \* history: POST /tx requests issued, the transaction last extracted from
    \* the PSBT and the numbers performSend computed for it
    posts, lastTx, lastPlan,
    \* history: the amount was written by handleMax and no handler has written
    \* the amount, the selection, the UTXO list or the fee rate since
    maxHeld,
    \* history: the explorer's answers to the page's refresh, in the order
    \* asked (address, answered or failed, outputs reported)
    refreshLog,
    \* history: the answers, the list and the selection of the page's last
    \* completed refresh, and whether the refresh before it got the same
    \* answers
    lastRefresh

dashVars == <<rev, activeTab, recipient, amountSats, feeRate, sending, txHash,
              sendError, utxos, selectedUtxoIds, estimatedFee,
              showMainnetConfirm, feesPending, refreshPc, refreshLeft,
              refreshAcc, sendPc, sendRefreshLeft, sendRefreshAcc>>
worldVars == <<chain, posts, lastTx, lastPlan>>
histVars == <<maxHeld, refreshLog, lastRefresh>>

VARIABLES
    \* history: alert('Invalid mnemonic ...') calls of handleImport
    alerts,
    \* the call of performSend entered while an earlier call is in flight
    overlapping,
    \* RawBroadcast state
    rawHex, parsedTx, editAmount, editFeeRate, rebuildError, broadcasting,
    result,
    \* history: calls of rebuildTx with a parsed transaction
    rebuilds

rawVars == <<rawHex, parsedTx, editAmount, editFeeRate, rebuildError,
             broadcasting, result, rebuilds>>
pageVars == <<alerts, overlapping, rawVars>>
vars == <<walletVars, scanVars, obsVars, dashVars, worldVars, histVars,
          pageVars>>

StoredWallets ==
    [mnemonic : Mnemonics, passphrase : Passphrases,
     currentReceiveIndex : 0..MaxReceiveIndex]

\* The "persist wallet state" effect: writes whenever a mnemonic is present.
Persist(m, p, cri, st) ==
    IF m # NoMnemonic
    THEN [mnemonic |-> m, passphrase |-> p, currentReceiveIndex |-> cri]
    ELSE st

\* scanForActivity up to its first await: locals initialised, isScanning set.
StartScan(r, api) ==
    /\ scanPc' = "await"
    /\ scanRoot' = r
    /\ scanApi' = api
    /\ index' = 0
    /\ maxUsedIndex' = -1
    /\ consecutiveUnused' = 0
    /\ isScanning' = TRUE
    /\ lookups' = 0
    /\ lastLookupIndex' = -1
    /\ lastResponse' = "none"
    /\ highestReported' = -1
    /\ highestEverUsed' = -1
    /\ allFailed' = TRUE

\* The effect cascade after a render in which the handler left mnemonic m,
\* passphrase p, receive index cri and network net:
\*   derive root   (deps mnemonic, passphrase)
\*   scan          (deps root, apiBase; skipped when !root || isScanning)
\*   derive all    (deps root, currentReceiveIndex)
\*   persist       (deps mnemonic, passphrase, currentReceiveIndex)
WalletEffects(m, p, cri, net, st) ==
    LET r == DeriveRoot(m, p)
        scanDeps == r # root \/ ApiBase(net) # ApiBase(network)
    IN  /\ network' = net
        /\ mnemonic' = m
        /\ passphrase' = p
        /\ currentReceiveIndex' = cri
        /\ root' = r
        /\ allAddresses' = DeriveAll(r, cri)
        /\ visibleAddresses' = Visible(DeriveAll(r, cri))
        /\ storage' = Persist(m, p, cri, st)
        /\ IF scanDeps /\ r # NoRoot /\ ~isScanning
           THEN StartScan(r, ApiBase(net))
           ELSE UNCHANGED <<scanVars, obsVars, isScanning>>

\* The same cascade when no state of the page depends on what changed.
Effects(m, p, cri, net, st) ==
    /\ WalletEffects(m, p, cri, net, st)
    /\ UNCHANGED <<dashVars, worldVars, histVars, pageVars>>

\* Mount: useState initial values, then the "load from localStorage" effect
\* and the effects it triggers.
Mounted(st, net) ==
    LET m == IF st = NoStorage THEN NoMnemonic ELSE st.mnemonic
        p == IF st = NoStorage THEN "" ELSE st.passphrase
        cri == IF st = NoStorage THEN 0 ELSE st.currentReceiveIndex
        r == DeriveRoot(m, p)
    IN  [network |-> net, mnemonic |-> m, passphrase |-> p,
         currentReceiveIndex |-> cri, root |-> r,
         allAddresses |-> DeriveAll(r, cri),
         isScanning |-> (r # NoRoot),
         scanPc |-> IF r # NoRoot THEN "await" ELSE "idle",
         scanRoot |-> r,
         scanApi |-> ApiBase(net)]

\* A transaction as RawBroadcast holds it: the values of its outputs and its
\* virtual size (which no output value changes).  '' has no outputs and size
\* 0; text that does not decode has size -1.
EmptyHex == [outs |-> <<>>, vsize |-> 0]
JunkHex == [outs |-> <<>>, vsize |-> -1]
\* useState<any>(null) for parsedTx
NoParsed == [outputs |-> <<>>, totalOutput |-> 0, vsize |-> 0]
\* useState(null) for result
NoResult == [success |-> FALSE, txid |-> <<>>, error |-> ""]

\* RawBroadcast after mount: the useState initial values (the parse effect
\* returns at the empty text).
RawInit ==
    /\ rawHex = EmptyHex
    /\ parsedTx = NoParsed
    /\ editAmount = NoAmount
    /\ editFeeRate = NoAmount
    /\ rebuildError = ""
    /\ broadcasting = FALSE
    /\ result = NoResult
    /\ rebuilds = 0

RawRemount ==
    /\ rawHex' = EmptyHex
    /\ parsedTx' = NoParsed
    /\ editAmount' = NoAmount
    /\ editFeeRate' = NoAmount
    /\ rebuildError' = ""
    /\ broadcasting' = FALSE
    /\ result' = NoResult
    /\ rebuilds' = 0

\* WalletDashboard after mount: the useState initial values; r2 has asked
\* for the recommended fees.
DashInit ==
    /\ rev \in Revisions
    /\ activeTab = "receive"
    /\ recipient = ""
    /\ amountSats = NoAmount
    /\ feeRate = DefaultFeeRate
    /\ sending = FALSE
    /\ txHash = NoTxHash
    /\ sendError = ""
    /\ utxos = <<>>
    /\ selectedUtxoIds = {}
    /\ estimatedFee = 0
    /\ showMainnetConfirm = FALSE
    /\ feesPending = (rev = "r2")
    /\ refreshPc = "idle"
    /\ refreshLeft = <<>>
    /\ refreshAcc = <<>>
    /\ sendPc = "idle"
    /\ sendRefreshLeft = <<>>
    /\ sendRefreshAcc = <<>>
    /\ chain = GenesisChain
    /\ posts = 0
    /\ lastTx = NoTx
    /\ lastPlan = NoPlan
    /\ maxHeld = FALSE
    /\ refreshLog = <<>>
    /\ lastRefresh = NoRefresh
    /\ alerts = 0
    /\ overlapping = NoOverlap
    /\ RawInit

\* The same values, written by a remount of the page.
DashRemount ==
    /\ rev' = rev
    /\ activeTab' = "receive"
    /\ recipient' = ""
    /\ amountSats' = NoAmount
    /\ feeRate' = DefaultFeeRate
    /\ sending' = FALSE
    /\ txHash' = NoTxHash
    /\ sendError' = ""
    /\ utxos' = <<>>
    /\ selectedUtxoIds' = {}
    /\ estimatedFee' = 0
    /\ showMainnetConfirm' = FALSE
    /\ feesPending' = (rev = "r2")
    /\ refreshPc' = "idle"
    /\ refreshLeft' = <<>>
    /\ refreshAcc' = <<>>
    /\ sendPc' = "idle"
    /\ sendRefreshLeft' = <<>>
    /\ sendRefreshAcc' = <<>>
    /\ maxHeld' = FALSE
    /\ refreshLog' = <<>>
    /\ lastRefresh' = NoRefresh
    /\ overlapping' = NoOverlap
    /\ RawRemount
    /\ UNCHANGED <<worldVars, alerts>>

WalletInit(stored) ==
    \E st \in stored, net \in Networks :
        LET s == Mounted(st, net)
        IN  /\ network = s.network
            /\ mnemonic = s.mnemonic
            /\ passphrase = s.passphrase
            /\ currentReceiveIndex = s.currentReceiveIndex
            /\ root = s.root
            /\ allAddresses = s.allAddresses
            /\ visibleAddresses = Visible(s.allAddresses)
            /\ isScanning = s.isScanning
            /\ storage = st
            /\ scanPc = s.scanPc
            /\ scanRoot = s.scanRoot
            /\ scanApi = s.scanApi
            /\ index = 0
            /\ maxUsedIndex = -1
            /\ consecutiveUnused = 0
            /\ lookups = 0
            /\ lastLookupIndex = -1
            /\ lastResponse = "none"
            /\ highestReported = -1
            /\ highestEverUsed = -1
            /\ allFailed = TRUE

Init == WalletInit({NoStorage} \cup StoredWallets) /\ DashInit

\* ------------------------------------------------------------------------
\* WalletProvider handlers
\* ------------------------------------------------------------------------
\* setPassphrase(p): setPassphraseState(p); setCurrentReceiveIndex(0)
SetPassphrase ==
    /\ mnemonic # NoMnemonic
    /\ \E p \in Passphrases : Effects(mnemonic, p, 0, network, storage)

\* handleCreate: generateWallet(wordCount); setPassphrase(newPassphrase)
HandleCreate ==
    /\ mnemonic = NoMnemonic
    /\ \E m \in Mnemonics, p \in Passphrases : Effects(m, p, 0, network, storage)

\* handleImport with a mnemonic that passes bip39.validateMnemonic:
\* importWallet sets mnemonic and index 0, then setPassphrase(importPassphrase)
HandleImport ==
    /\ mnemonic = NoMnemonic
    /\ \E m \in Mnemonics, p \in Passphrases : Effects(m, p, 0, network, storage)

\* bip39.validateMnemonic: the word list and the checksum
ValidateMnemonic(text) == text \in Mnemonics
\* Texts typed into the import form that fail the checksum.
InvalidMnemonics == {"m1 with a wrong last word"}

\* (handleImport's failure branch applying the import passphrase all the same)
ImportRefusedPassphraseApplied(p) ==
    /\ WalletEffects(mnemonic, p, 0, network, storage)
    /\ UNCHANGED <<dashVars, worldVars, histVars, overlapping, rawVars>>

\* importWallet returns false before any setter; handleImport goes to its
\* else branch, which only alerts.
ImportRefused(p) ==
    UNCHANGED <<walletVars, scanVars, obsVars, dashVars, worldVars, histVars,
                overlapping, rawVars>>

\* handleImport with a text that fails bip39.validateMnemonic
HandleImportInvalid ==
    /\ mnemonic = NoMnemonic
    /\ alerts < MaxAlerts
    /\ \E text \in InvalidMnemonics, p \in Passphrases :
          /\ ~ValidateMnemonic(text)
          /\ ImportRefused(p)
    /\ alerts' = alerts + 1

\* nextReceiveAddress: setCurrentReceiveIndex(prev => prev + 1)
NextReceiveAddress ==
    /\ mnemonic # NoMnemonic
    /\ currentReceiveIndex < MaxReceiveIndex
    /\ Effects(mnemonic, passphrase, currentReceiveIndex + 1, network, storage)

\* clearWallet: resets every field and removes the stored record
ClearWallet ==
    /\ mnemonic # NoMnemonic
    /\ Effects(NoMnemonic, "", 0, network, NoStorage)

\* setNetwork from the header's radio buttons
SetNetwork ==
    \E net \in Networks :
        /\ net # network
        /\ Effects(mnemonic, passphrase, currentReceiveIndex, net, storage)

\* ------------------------------------------------------------------------
\* scanForActivity: one loop iteration per oracle answer
\* ------------------------------------------------------------------------
\* AfterLookup with the reset of consecutiveUnused on activity left out.
AfterLookupNoReset(d) ==
    IF d.ok /\ HasActivity(d)
    THEN [maxUsedIndex |-> index, consecutiveUnused |-> consecutiveUnused]
    ELSE [maxUsedIndex |-> maxUsedIndex,
          consecutiveUnused |-> consecutiveUnused + 1]

\* AfterLookup with a catch block that swallows the failure without counting.
AfterLookupFailureUncounted(d) ==
    IF d.ok /\ HasActivity(d)
    THEN [maxUsedIndex |-> index, consecutiveUnused |-> 0]
    ELSE [maxUsedIndex |-> maxUsedIndex,
          consecutiveUnused |-> IF d.ok THEN consecutiveUnused + 1
                                ELSE consecutiveUnused]

\* The locals after the answer d to the lookup of address `index`: the try
\* block's if/else, and the catch block for a failed request.
AfterLookup(d) ==
    IF d.ok /\ HasActivity(d)
    THEN [maxUsedIndex |-> index, consecutiveUnused |-> 0]
    ELSE [maxUsedIndex |-> maxUsedIndex,
          consecutiveUnused |-> consecutiveUnused + 1]

ResponseKind(d) ==
    IF ~d.ok THEN "fail"
    ELSE IF HasActivity(d) THEN "chain"
    ELSE IF d.mempool_tx_count > 0 THEN "mempool"
    ELSE "none"

Observe(d) ==
    /\ lookups' = lookups + 1
    /\ lastLookupIndex' = index
    /\ lastResponse' = ResponseKind(d)
    /\ highestReported' = IF d.ok /\ HasActivity(d) THEN index ELSE highestReported
    /\ highestEverUsed' = IF EverUsed(d) THEN index ELSE highestEverUsed
    /\ allFailed' = (allFailed /\ ~d.ok)

\* The loop condition written with <= instead of <.
LoopContinuesOneMore(c) == c <= GAP_LIMIT

\* while (consecutiveUnused < GAP_LIMIT): the loop goes round again
LoopContinues(c) == c < GAP_LIMIT

\* An answer arrives and the loop continues with the next index.
ScanLookup(R) ==
    /\ scanPc = "await"
    /\ \E d \in Responses(index) \cap R :
        LET a == AfterLookup(d)
        IN  /\ LoopContinues(a.consecutiveUnused)
            /\ maxUsedIndex' = a.maxUsedIndex
            /\ consecutiveUnused' = a.consecutiveUnused
            /\ index' = index + 1
            /\ Observe(d)
            /\ UNCHANGED <<walletVars, scanPc, scanRoot, scanApi>>
            /\ UNCHANGED <<dashVars, worldVars, histVars, pageVars>>

\* The last answer arrives, the loop exits, and the scan writes its result:
\* setCurrentReceiveIndex(newIndex); setIsScanning(false); then the effects
\* of the changed index (derive all, persist) run.
ScanFinish(R) ==
    /\ scanPc = "await"
    /\ \E d \in Responses(index) \cap R :
        LET a == AfterLookup(d)
            newIndex == NewIndex(a.maxUsedIndex)
        IN  /\ ~LoopContinues(a.consecutiveUnused)
            /\ maxUsedIndex' = a.maxUsedIndex
            /\ consecutiveUnused' = a.consecutiveUnused
            /\ index' = index + 1
            /\ Observe(d)
            /\ scanPc' = "done"
            /\ isScanning' = FALSE
            /\ currentReceiveIndex' = newIndex
            /\ allAddresses' = DeriveAll(root, newIndex)
            /\ visibleAddresses' = Visible(DeriveAll(root, newIndex))
            /\ storage' = Persist(mnemonic, passphrase, newIndex, storage)
            /\ UNCHANGED <<network, mnemonic, passphrase, root, scanRoot, scanApi>>
            /\ UNCHANGED <<dashVars, worldVars, histVars, pageVars>>

\* A page reload: the component tree is rebuilt from localStorage and the
\* scan in flight, if any, is gone with the old page.
Reload ==
    LET s == Mounted(storage, network)
    IN  /\ network' = s.network
        /\ mnemonic' = s.mnemonic
        /\ passphrase' = s.passphrase
        /\ currentReceiveIndex' = s.currentReceiveIndex
        /\ root' = s.root
        /\ allAddresses' = s.allAddresses
        /\ visibleAddresses' = Visible(s.allAddresses)
        /\ isScanning' = s.isScanning
        /\ storage' = storage
        /\ scanPc' = s.scanPc
        /\ scanRoot' = s.scanRoot
        /\ scanApi' = s.scanApi
        /\ index' = 0
        /\ maxUsedIndex' = -1
        /\ consecutiveUnused' = 0
        /\ lookups' = 0
        /\ lastLookupIndex' = -1
        /\ lastResponse' = "none"
        /\ highestReported' = -1
        /\ highestEverUsed' = -1
        /\ allFailed' = TRUE
        /\ DashRemount

\* ------------------------------------------------------------------------
\* WalletDashboard handlers
\* ------------------------------------------------------------------------
\* (the wallet provider and the other pages are left alone)
WalletUntouched == UNCHANGED <<walletVars, scanVars, obsVars, pageVars>>

\* The fee estimate effect, run after every render that changed its inputs.
FeeEffect ==
    estimatedFee' = EstimateFee(rev, utxos', selectedUtxoIds', amountSats',
                                recipient', feeRate')

\* getUtxos up to its first await: the address list of the current render.
\* One refresh started from the page is followed at a time.
StartRefresh ==
    /\ refreshPc' = "fetching"
    /\ refreshLeft' = allAddresses
    /\ refreshAcc' = <<>>
    /\ refreshLog' = <<>>
    /\ UNCHANGED lastRefresh

\* The explorer's answer to GET /address/<a>/utxo: the unspent outputs of a
\* in the explorer's order; the answer does not name the address.
Reported(a) ==
    LET owned == SelectSeq(chain, LAMBDA u : u.address = a)
    IN  [k \in 1..Len(owned) |->
           [txid |-> owned[k].txid, vout |-> owned[k].vout,
            value |-> owned[k].value, confirmed |-> owned[k].confirmed]]

\* data.forEach(u => utxos.push({txid, vout, value, address, status})): each
\* reported output tagged with the address that was asked for.
Tagged(a, data) ==
    [k \in 1..Len(data) |->
       [txid |-> data[k].txid, vout |-> data[k].vout, value |-> data[k].value,
        address |-> a, confirmed |-> data[k].confirmed]]

\* The answer for a as getUtxos pushes it.
UtxosOf(a) == Tagged(a, Reported(a))

\* setActiveTab; the tab's effect starts a refresh when the send tab opens.
\* (r1 lists getUtxos among the effect's dependencies and so refreshes again
\* whenever WalletProvider renders; the wallet is at rest while the send tab
\* is followed here.)
SetActiveTab(Tabs) ==
    /\ mnemonic # NoMnemonic
    /\ \E t \in Tabs :
        /\ t # activeTab
        /\ activeTab' = t
        /\ IF t = "send"
           THEN refreshPc = "idle" /\ StartRefresh
           ELSE UNCHANGED <<refreshPc, refreshLeft, refreshAcc, refreshLog, lastRefresh>>
    /\ UNCHANGED <<rev, recipient, amountSats, feeRate, sending, txHash,
                   sendError, utxos, selectedUtxoIds, estimatedFee,
                   showMainnetConfirm, feesPending, sendPc, sendRefreshLeft,
                   sendRefreshAcc, worldVars>>
    /\ UNCHANGED maxHeld
    /\ WalletUntouched

\* The Refresh button of the wallet overview (r2): refreshUtxos()
RefreshClick ==
    /\ rev = "r2"
    /\ mnemonic # NoMnemonic
    /\ refreshPc = "idle"
    /\ StartRefresh
    /\ UNCHANGED <<rev, activeTab, recipient, amountSats, feeRate, sending,
                   txHash, sendError, utxos, selectedUtxoIds, estimatedFee,
                   showMainnetConfirm, feesPending, sendPc, sendRefreshLeft,
                   sendRefreshAcc, worldVars>>
    /\ UNCHANGED maxHeld
    /\ WalletUntouched

\* The same loop when a failed request ends getUtxos with what it has not
\* yet collected thrown away.
CollectedAbortOnFailure(acc, left, ok) ==
    IF left = <<>> THEN acc
    ELSE IF ok THEN acc \o UtxosOf(Head(left)) ELSE <<>>

\* (the same loop putting each answer in front of what it has collected)
CollectedInFront(acc, left, ok) ==
    IF left = <<>> THEN acc
    ELSE IF ok THEN UtxosOf(Head(left)) \o acc ELSE acc

\* The UTXOs collected after one more address has answered (ok) or its
\* request has failed: a failure is logged and adds nothing.
Collected(acc, left, ok) ==
    IF left = <<>> THEN acc
    ELSE IF ok THEN acc \o UtxosOf(Head(left)) ELSE acc

\* One answer to the refresh in flight; with the last answer getUtxos
\* returns and refreshUtxos stores the list and selects the confirmed ones.
RefreshAnswer(Oks) ==
    /\ refreshPc = "fetching"
    /\ \E ok \in Oks :
        LET acc == Collected(refreshAcc, refreshLeft, ok)
        IN
          /\ refreshLog' = IF refreshLeft = <<>> THEN refreshLog
                            ELSE Append(refreshLog,
                                        [address |-> Head(refreshLeft), ok |-> ok,
                                         data |-> Reported(Head(refreshLeft))])
          /\ IF Len(refreshLeft) > 1
                THEN /\ refreshLeft' = Tail(refreshLeft)
                     /\ refreshAcc' = acc
                     /\ UNCHANGED <<refreshPc, utxos, selectedUtxoIds, estimatedFee>>
                     /\ UNCHANGED lastRefresh
                ELSE /\ refreshPc' = "idle"
                     /\ refreshLeft' = <<>>
                     /\ refreshAcc' = <<>>
                     /\ utxos' = acc
                     /\ selectedUtxoIds' = ConfirmedIds(acc)
                     /\ estimatedFee' = EstimateFee(rev, acc, ConfirmedIds(acc),
                                                    amountSats, recipient, feeRate)
                     /\ lastRefresh' = [log |-> refreshLog', utxos |-> acc,
                                        selected |-> ConfirmedIds(acc),
                                        repeats |-> (refreshLog' = lastRefresh.log)]
    /\ UNCHANGED <<rev, activeTab, recipient, amountSats, feeRate, sending,
                   txHash, sendError, showMainnetConfirm, feesPending, sendPc,
                   sendRefreshLeft, sendRefreshAcc, worldVars>>
    /\ maxHeld' = (maxHeld /\ refreshPc' = "fetching")
    /\ WalletUntouched

\* toggleUtxo(id) on a row of the UTXO list
ToggleUtxo ==
    /\ activeTab = "send"
    /\ \E k \in 1..Len(utxos) :
        selectedUtxoIds' =
            IF UtxoId(utxos[k]) \in selectedUtxoIds
            THEN selectedUtxoIds \ {UtxoId(utxos[k])}
            ELSE selectedUtxoIds \cup {UtxoId(utxos[k])}
    /\ UNCHANGED <<rev, activeTab, recipient, amountSats, feeRate, sending,
                   txHash, sendError, utxos, showMainnetConfirm, feesPending,
                   refreshPc, refreshLeft, refreshAcc, sendPc, sendRefreshLeft,
                   sendRefreshAcc, worldVars>>
    /\ FeeEffect
    /\ maxHeld' = FALSE /\ UNCHANGED <<refreshLog, lastRefresh>>
    /\ WalletUntouched

\* selectAll: every listed UTXO, confirmed or not
SelectAll ==
    /\ activeTab = "send"
    /\ selectedUtxoIds' = {UtxoId(utxos[k]) : k \in 1..Len(utxos)}
    /\ selectedUtxoIds' # selectedUtxoIds
    /\ UNCHANGED <<rev, activeTab, recipient, amountSats, feeRate, sending,
                   txHash, sendError, utxos, showMainnetConfirm, feesPending,
                   refreshPc, refreshLeft, refreshAcc, sendPc, sendRefreshLeft,
                   sendRefreshAcc, worldVars>>
    /\ FeeEffect
    /\ maxHeld' = FALSE /\ UNCHANGED <<refreshLog, lastRefresh>>
    /\ WalletUntouched

\* The recipient input's onChange
SetRecipientTo(Rs) ==
    /\ activeTab = "send"
    /\ \E r \in Rs : r # recipient /\ recipient' = r
    /\ UNCHANGED <<rev, activeTab, amountSats, feeRate, sending, txHash,
                   sendError, utxos, selectedUtxoIds, showMainnetConfirm,
                   feesPending, refreshPc, refreshLeft, refreshAcc, sendPc,
                   sendRefreshLeft, sendRefreshAcc, worldVars>>
    /\ FeeEffect
    /\ UNCHANGED histVars
    /\ WalletUntouched

SetRecipient == SetRecipientTo(Recipients)

\* The fee a send of the confirmed UTXOs of GenesisChain to a valid recipient
\* is charged at the default fee rate.
ReferenceFee ==
    EstimateFee(rev, GenesisChain, ConfirmedIds(GenesisChain), AmountText(1),
                "rcpt", DefaultFeeRate)

\* What is typed into the amount input: nothing, 0, or an amount that leaves
\* one of ChangeCases as change in that reference send.  Under another
\* selection or fee rate the same amounts leave other changes.
AmountInputs ==
    {NoAmount, AmountText(0)}
    \cup {AmountText(SumValues(Selected(GenesisChain, ConfirmedIds(GenesisChain)))
                       - ReferenceFee - c) : c \in ChangeCases}

\* The amount input's onChange
SetAmountSats(Amounts) ==
    /\ activeTab = "send"
    /\ \E a \in Amounts : a # amountSats /\ amountSats' = a
    /\ UNCHANGED <<rev, activeTab, recipient, feeRate, sending, txHash,
                   sendError, utxos, selectedUtxoIds, showMainnetConfirm,
                   feesPending, refreshPc, refreshLeft, refreshAcc, sendPc,
                   sendRefreshLeft, sendRefreshAcc, worldVars>>
    /\ FeeEffect
    /\ maxHeld' = FALSE /\ UNCHANGED <<refreshLog, lastRefresh>>
    /\ WalletUntouched

\* The fee-rate input's onChange and the preset buttons
SetFeeRate ==
    /\ activeTab = "send"
    /\ \E f \in FeeRates : f # feeRate /\ feeRate' = f
    /\ UNCHANGED <<rev, activeTab, recipient, amountSats, sending, txHash,
                   sendError, utxos, selectedUtxoIds, showMainnetConfirm,
                   feesPending, refreshPc, refreshLeft, refreshAcc, sendPc,
                   sendRefreshLeft, sendRefreshAcc, worldVars>>
    /\ FeeEffect
    /\ maxHeld' = FALSE /\ UNCHANGED <<refreshLog, lastRefresh>>
    /\ WalletUntouched

\* fetchFees (r2): the recommended fees arrive and setFeeRate(hourFee || 10),
\* or the request fails and the defaults stay.
FeesFetched ==
    /\ feesPending
    /\ feesPending' = FALSE
    /\ \/ \E f \in FeeRates : feeRate' = f
       \/ feeRate' = feeRate
    /\ UNCHANGED <<rev, activeTab, recipient, amountSats, sending, txHash,
                   sendError, utxos, selectedUtxoIds, showMainnetConfirm,
                   refreshPc, refreshLeft, refreshAcc, sendPc, sendRefreshLeft,
                   sendRefreshAcc, worldVars>>
    /\ FeeEffect
    /\ maxHeld' = (maxHeld /\ feeRate' = feeRate) /\ UNCHANGED <<refreshLog, lastRefresh>>
    /\ WalletUntouched

\* handleMax (r2): amount = max(0, total of the selection - estimatedFee)
MaxSendable ==
    LET total == SumValues(Selected(utxos, selectedUtxoIds))
    IN  IF total - estimatedFee > 0 THEN total - estimatedFee ELSE 0

HandleMax ==
    /\ rev = "r2"
    /\ activeTab = "send"
    /\ amountSats' = AmountText(MaxSendable)
    /\ (amountSats' # amountSats \/ ~maxHeld)
    /\ UNCHANGED <<rev, activeTab, recipient, feeRate, sending, txHash,
                   sendError, utxos, selectedUtxoIds, showMainnetConfirm,
                   feesPending, refreshPc, refreshLeft, refreshAcc, sendPc,
                   sendRefreshLeft, sendRefreshAcc, worldVars>>
    /\ FeeEffect
    /\ maxHeld' = TRUE /\ UNCHANGED <<refreshLog, lastRefresh>>
    /\ WalletUntouched


\* The passphrase input of the receive tab (r1): onChange calls
\* setPassphrase; the tab's effect does not run off the send tab.
PassphraseInput ==
    /\ rev = "r1"
    /\ activeTab = "receive"
    /\ sendPc = "idle"
    /\ SetPassphrase

\* r2's effect on [mnemonic]: the send form, the selection and the tab are
\* reset; the UTXO list is kept.
ResetOnMnemonic ==
    /\ txHash' = NoTxHash
    /\ sendError' = ""
    /\ recipient' = ""
    /\ amountSats' = NoAmount
    /\ selectedUtxoIds' = {}
    /\ activeTab' = "receive"
    /\ UNCHANGED <<rev, feeRate, sending, utxos, showMainnetConfirm,
                   feesPending, refreshPc, refreshLeft, refreshAcc, sendPc,
                   sendRefreshLeft, sendRefreshAcc, worldVars>>
    /\ FeeEffect
    /\ maxHeld' = FALSE /\ UNCHANGED <<refreshLog, lastRefresh>>
    /\ UNCHANGED pageVars

\* The wallet actions' "Disconnect" button (r2): clearWallet, and the page's
\* reset.
Disconnect ==
    /\ rev = "r2"
    /\ mnemonic # NoMnemonic
    /\ sendPc = "idle"
    /\ WalletEffects(NoMnemonic, "", 0, network, NoStorage)
    /\ ResetOnMnemonic

\* handleImport on the page (r2) with a valid mnemonic, and the page's reset.
ImportOnPage ==
    /\ rev = "r2"
    /\ mnemonic = NoMnemonic
    /\ \E m \in Mnemonics, p \in Passphrases :
          WalletEffects(m, p, 0, network, storage)
    /\ ResetOnMnemonic

\* ------------------------------------------------------------------------
\* performSend
\* ------------------------------------------------------------------------
\* receiveAddresses.indexOf(address): 0-based, -1 when absent
IndexOfAddress(a) ==
    IF \E k \in 1..Len(allAddresses) : allAddresses[k] = a
    THEN (CHOOSE k \in 1..Len(allAddresses) :
            /\ allAddresses[k] = a
            /\ \A j \in 1..(k - 1) : allAddresses[j] # a) - 1
    ELSE -1

\* const currentAddress = receiveAddresses[receiveAddresses.length - 1] || null
CurrentAddress ==
    IF allAddresses = <<>> THEN ExternalAddress("null")
    ELSE allAddresses[Len(allAddresses)]

Rejected(msg) == [error |-> msg, tx |-> NoTx, plan |-> NoPlan]

\* r2: if (changeAmount < 546 && changeAmount > 0) throw 'Change below dust threshold'
DustRejectedR2(changeAmount) == changeAmount < DUST /\ changeAmount > 0

\* r1: if (change > 546) psbt.addOutput(change)
ChangeOutputR1(change) == change > DUST

\* r2: if (changeAmount > 0) psbt.addOutput(change)
ChangeOutputR2(changeAmount) == changeAmount > 0

\* r2 with the funds check comparing against the amount alone.
InsufficientR2NoFee(totalInput, amount, fee) == totalInput < amount

\* r2: if (totalInput < amount + fee) throw 'Insufficient funds (including fee)'
InsufficientR2(totalInput, amount, fee) == totalInput < amount + fee

\* r1: if (change < 0) throw 'Outputs are spending more than inputs ...'
InsufficientR1(change) == change < 0

\* const totalInput = selected.reduce((sum, u) => sum + u.value, 0)
TotalInput == SumValues(Selected(utxos, selectedUtxoIds))

\* const fee = estimatedFee (r2); estimatedFee || Math.ceil(feeRate * 250) (r1)
ChargedFee ==
    IF rev = "r1" /\ estimatedFee = 0
    THEN CeilDiv(feeRate * FALLBACK_VSIZE, 10)
    ELSE estimatedFee

\* performSend of r2 (src/unnamed/part_010) from its first line to the
\* extracted transaction, or to the error it throws.
BuildR2 ==
    LET amount == ParseInt(amountSats)
        selected == Selected(utxos, selectedUtxoIds)
        totalInput == TotalInput
        fee == ChargedFee
        changeAmount == totalInput - amount - fee
        inputs == [k \in 1..Len(selected) |->
                     [txid |-> selected[k].txid, vout |-> selected[k].vout,
                      value |-> selected[k].value,
                      script |-> selected[k].address,
                      sequence |-> SEQUENCE_FINAL,
                      key |-> AddressAt(root, IndexOfAddress(selected[k].address))]]
        outputs == <<[address |-> ExternalAddress(recipient), value |-> amount]>>
                   \o (IF ChangeOutputR2(changeAmount)
                       THEN <<[address |-> CurrentAddress, value |-> changeAmount]>>
                       ELSE <<>>)
    IN  IF amount <= 0 THEN Rejected("Invalid amount")
        ELSE IF selected = <<>> THEN Rejected("No UTXOs selected")
        ELSE IF InsufficientR2(totalInput, amount, fee)
            THEN Rejected("Insufficient funds (including fee)")
        ELSE IF DustRejectedR2(changeAmount)
            THEN Rejected("Change below dust threshold")
        ELSE IF \E k \in 1..Len(selected) : IndexOfAddress(selected[k].address) = -1
            THEN Rejected("UTXO address not in wallet")
        ELSE IF ~ValidAddress(recipient)
            THEN Rejected("invalid address")
        ELSE IF root = NoRoot THEN Rejected("Failed to derive key")
        ELSE IF \E k \in 1..Len(inputs) : inputs[k].key # inputs[k].script
            THEN Rejected("Can not sign for this input with the key")
        ELSE [error |-> "", tx |-> [inputs |-> inputs, outputs |-> outputs],
              plan |-> [totalInput |-> totalInput, amount |-> amount,
                        fee |-> fee, change |-> changeAmount]]

\* performSend of r1 (src/src/pages/WalletDashboard.tsx).
BuildR1 ==
    LET amount == ParseInt(amountSats)
        selected == Selected(utxos, selectedUtxoIds)
        totalInput == TotalInput
        fee == ChargedFee
        change == totalInput - amount - fee
        inputs == [k \in 1..Len(selected) |->
                     [txid |-> selected[k].txid, vout |-> selected[k].vout,
                      value |-> selected[k].value,
                      script |-> AddressAt(root, IndexOfAddress(selected[k].address)),
                      sequence |-> SEQUENCE_RBF,
                      key |-> AddressAt(root, IndexOfAddress(selected[k].address))]]
        outputs == <<[address |-> ExternalAddress(recipient), value |-> amount]>>
                   \o (IF ChangeOutputR1(change)
                       THEN <<[address |-> CurrentAddress, value |-> change]>>
                       ELSE <<>>)
    IN  IF IsNaN(amountSats) \/ amount <= 0 THEN Rejected("Invalid amount")
        ELSE IF selected = <<>> THEN Rejected("No UTXOs selected")
        ELSE IF InsufficientR1(change)
            THEN Rejected("Outputs are spending more than inputs (check amount + fee)")
        ELSE IF root = NoRoot
            THEN Rejected("Cannot read properties of null (reading 'publicKey')")
        ELSE IF \E k \in 1..Len(selected) : IndexOfAddress(selected[k].address) = -1
            THEN Rejected("Expected BIP32Path")
        ELSE IF ~ValidAddress(recipient)
            THEN Rejected("invalid address")
        ELSE [error |-> "", tx |-> [inputs |-> inputs, outputs |-> outputs],
              plan |-> [totalInput |-> totalInput, amount |-> amount,
                        fee |-> fee, change |-> change]]

Build == IF rev = "r1" THEN BuildR1 ELSE BuildR2

\* performSend up to `await axios.post(...)`, or through catch and finally
\* when building or signing throws.  One send is followed at a time.
PerformSend ==
    /\ sendPc = "idle"
    /\ posts < MaxPosts
    /\ LET b == Build
       IN  IF b.error # ""
           THEN /\ sendError' = b.error
                /\ sending' = FALSE
                /\ UNCHANGED <<sendPc, posts, lastTx, lastPlan>>
           ELSE /\ sendError' = ""
                /\ sending' = TRUE
                /\ sendPc' = "posting"
                /\ posts' = posts + 1
                /\ lastTx' = b.tx
                /\ lastPlan' = b.plan
    /\ txHash' = NoTxHash
    /\ UNCHANGED <<rev, activeTab, recipient, amountSats, feeRate, utxos,
                   selectedUtxoIds, estimatedFee, feesPending, refreshPc,
                   refreshLeft, refreshAcc, sendRefreshLeft, sendRefreshAcc,
                   chain>>
    /\ UNCHANGED histVars
    /\ WalletUntouched

\* The send button: disabled={sending || !recipient || !amountSats ||
\* selectedUtxoIds.size === 0}; on mainnet it only opens the confirmation.
SendEnabled ==
    /\ activeTab = "send"
    /\ ~sending
    /\ recipient # ""
    /\ amountSats # NoAmount
    /\ selectedUtxoIds # {}

SendTransaction ==
    /\ SendEnabled
    /\ network # "mainnet"
    /\ PerformSend
    /\ showMainnetConfirm' = (IF sendPc' = "posting" THEN showMainnetConfirm
                              ELSE FALSE)

SendTransactionMainnet ==
    /\ SendEnabled
    /\ network = "mainnet"
    /\ ~showMainnetConfirm
    /\ showMainnetConfirm' = TRUE
    /\ UNCHANGED <<rev, activeTab, recipient, amountSats, feeRate, sending,
                   txHash, sendError, utxos, selectedUtxoIds, estimatedFee,
                   feesPending, refreshPc, refreshLeft, refreshAcc, sendPc,
                   sendRefreshLeft, sendRefreshAcc, worldVars>>
    /\ UNCHANGED histVars
    /\ WalletUntouched

\* The dialog's "I Understand - Send" button: onClick={performSend}
ConfirmSend ==
    /\ showMainnetConfirm
    /\ PerformSend
    /\ showMainnetConfirm' = (IF sendPc' = "posting" THEN showMainnetConfirm
                              ELSE FALSE)

\* The dialog's Cancel button
CancelConfirm ==
    /\ showMainnetConfirm
    /\ sendPc = "idle"
    /\ showMainnetConfirm' = FALSE
    /\ UNCHANGED <<rev, activeTab, recipient, amountSats, feeRate, sending,
                   txHash, sendError, utxos, selectedUtxoIds, estimatedFee,
                   feesPending, refreshPc, refreshLeft, refreshAcc, sendPc,
                   sendRefreshLeft, sendRefreshAcc, worldVars>>
    /\ UNCHANGED histVars
    /\ WalletUntouched

\* The chain after the explorer has accepted tx: its inputs are spent, its
\* outputs to wallet addresses are listed as unconfirmed UTXOs.
SpentIds(tx) == {<<tx.inputs[k].txid, tx.inputs[k].vout>> : k \in 1..Len(tx.inputs)}
ChainAfter(tx, txid) ==
    SelectSeq(chain, LAMBDA u : UtxoId(u) \notin SpentIds(tx))
    \o SelectSeq([k \in 1..Len(tx.outputs) |->
                    [txid |-> txid, vout |-> k - 1, value |-> tx.outputs[k].value,
                     address |-> tx.outputs[k].address, confirmed |-> FALSE]],
                 LAMBDA u : u.address.root[1] # "external")

\* POST /tx answers with the transaction id: setTxHash; r2 then awaits
\* refreshUtxos(), r1 is through (finally).
BroadcastAccepted ==
    /\ sendPc = "posting"
    /\ SpentIds(lastTx) \subseteq {UtxoId(chain[k]) : k \in 1..Len(chain)}
    /\ chain' = ChainAfter(lastTx, <<"n", posts>>)
    /\ txHash' = <<"n", posts>>
    /\ IF rev = "r2"
       THEN /\ sendPc' = "refreshing"
            /\ sendRefreshLeft' = allAddresses
            /\ sendRefreshAcc' = <<>>
            /\ UNCHANGED <<sending, showMainnetConfirm>>
       ELSE /\ sendPc' = "idle"
            /\ sending' = FALSE
            /\ showMainnetConfirm' = FALSE
            /\ UNCHANGED <<sendRefreshLeft, sendRefreshAcc>>
    /\ UNCHANGED <<rev, activeTab, recipient, amountSats, feeRate, sendError,
                   utxos, selectedUtxoIds, estimatedFee, feesPending,
                   refreshPc, refreshLeft, refreshAcc, posts>>
    /\ lastTx' = NoTx
    /\ lastPlan' = NoPlan
    /\ UNCHANGED histVars
    /\ WalletUntouched

\* The bodies with which the explorer refuses a transaction (status 400).
RejectionBodies ==
    {"sendrawtransaction RPC error: bad-txns-inputs-missingorspent",
     "sendrawtransaction RPC error: min relay fee not met"}

\* err.message of the error axios throws for a refusal: it names the status
\* code; the body is in err.response.data.
ErrMessage(body) == "Request failed with status code 400"

\* POST /tx is refused: catch sets sendError to err.message (or to a fixed
\* text if that is empty), finally clears sending and the dialog.
BroadcastRejected ==
    /\ sendPc = "posting"
    /\ sendPc' = "idle"
    /\ \E body \in RejectionBodies :
          sendError' = (IF ErrMessage(body) # "" THEN ErrMessage(body)
                        ELSE IF rev = "r1" THEN "Transaction failed"
                        ELSE "Broadcast failed")
    /\ sending' = FALSE
    /\ showMainnetConfirm' = FALSE
    /\ UNCHANGED <<rev, activeTab, recipient, amountSats, feeRate, txHash,
                   utxos, selectedUtxoIds, estimatedFee, feesPending,
                   refreshPc, refreshLeft, refreshAcc, sendRefreshLeft,
                   sendRefreshAcc, chain, posts>>
    /\ lastTx' = NoTx
    /\ lastPlan' = NoPlan
    /\ UNCHANGED histVars
    /\ WalletUntouched

\* r2: one answer to the refresh performSend awaits; after the last one the
\* list and the selection are replaced, recipient and amount are cleared and
\* finally runs.
SendRefreshAnswer(Oks) ==
    /\ sendPc = "refreshing"
    /\ \E ok \in Oks :
        LET acc == Collected(sendRefreshAcc, sendRefreshLeft, ok)
        IN  IF Len(sendRefreshLeft) > 1
            THEN /\ sendRefreshLeft' = Tail(sendRefreshLeft)
                 /\ sendRefreshAcc' = acc
                 /\ UNCHANGED <<sendPc, utxos, selectedUtxoIds, estimatedFee,
                                recipient, amountSats, sending,
                                showMainnetConfirm>>
            ELSE /\ sendPc' = "idle"
                 /\ sendRefreshLeft' = <<>>
                 /\ sendRefreshAcc' = <<>>
                 /\ utxos' = acc
                 /\ selectedUtxoIds' = ConfirmedIds(acc)
                 /\ recipient' = ""
                 /\ amountSats' = NoAmount
                 /\ sending' = FALSE
                 /\ showMainnetConfirm' = FALSE
                 /\ estimatedFee' = EstimateFee(rev, acc, ConfirmedIds(acc),
                                                NoAmount, "", feeRate)
    /\ UNCHANGED <<rev, activeTab, feeRate, txHash, sendError, feesPending,
                   refreshPc, refreshLeft, refreshAcc, worldVars>>
    /\ maxHeld' = (maxHeld /\ sendPc' = "refreshing") /\ UNCHANGED <<refreshLog, lastRefresh>>
    /\ WalletUntouched

\* ------------------------------------------------------------------------
\* performSend entered again from the confirmation dialog
\* ------------------------------------------------------------------------
\* The dialog's "I Understand - Send" button has no disabled attribute and
\* the dialog stays open until finally runs: pressed while an earlier
\* performSend awaits its POST or its refresh, it enters performSend again,
\* which runs up to its own POST, or through catch and finally.
ConfirmSendAgain ==
    /\ showMainnetConfirm
    /\ sendPc # "idle"
    /\ overlapping = NoOverlap
    /\ posts < MaxPosts
    /\ LET b == Build
       IN  IF b.error # ""
           THEN /\ sendError' = b.error
                /\ sending' = FALSE
                /\ showMainnetConfirm' = FALSE
                /\ UNCHANGED <<posts, overlapping>>
           ELSE /\ sendError' = ""
                /\ sending' = TRUE
                /\ posts' = posts + 1
                /\ overlapping' = [pc |-> "posting", tx |-> b.tx,
                                   left |-> <<>>, acc |-> <<>>]
                /\ UNCHANGED showMainnetConfirm
    /\ txHash' = NoTxHash
    /\ UNCHANGED <<rev, activeTab, recipient, amountSats, feeRate, utxos,
                   selectedUtxoIds, estimatedFee, feesPending, refreshPc,
                   refreshLeft, refreshAcc, sendPc, sendRefreshLeft,
                   sendRefreshAcc, chain, lastTx, lastPlan>>
    /\ UNCHANGED histVars
    /\ UNCHANGED <<walletVars, scanVars, obsVars, alerts, rawVars>>

\* The second call's POST /tx is accepted: setTxHash; r2 then awaits
\* refreshUtxos(), r1 is through (finally).
OverlapAccepted ==
    /\ overlapping.pc = "posting"
    /\ SpentIds(overlapping.tx) \subseteq {UtxoId(chain[k]) : k \in 1..Len(chain)}
    /\ chain' = ChainAfter(overlapping.tx, <<"o", posts>>)
    /\ txHash' = <<"o", posts>>
    /\ IF rev = "r2"
       THEN /\ overlapping' = [pc |-> "refreshing", tx |-> NoTx,
                               left |-> allAddresses, acc |-> <<>>]
            /\ UNCHANGED <<sending, showMainnetConfirm>>
       ELSE /\ overlapping' = NoOverlap
            /\ sending' = FALSE
            /\ showMainnetConfirm' = FALSE
    /\ UNCHANGED <<rev, activeTab, recipient, amountSats, feeRate, sendError,
                   utxos, selectedUtxoIds, estimatedFee, feesPending,
                   refreshPc, refreshLeft, refreshAcc, sendPc, sendRefreshLeft,
                   sendRefreshAcc, posts, lastTx, lastPlan>>
    /\ UNCHANGED histVars
    /\ UNCHANGED <<walletVars, scanVars, obsVars, alerts, rawVars>>

\* The second call's POST /tx is refused: catch and finally.
OverlapRejected ==
    /\ overlapping.pc = "posting"
    /\ overlapping' = NoOverlap
    /\ \E body \in RejectionBodies :
          sendError' = (IF ErrMessage(body) # "" THEN ErrMessage(body)
                        ELSE IF rev = "r1" THEN "Transaction failed"
                        ELSE "Broadcast failed")
    /\ sending' = FALSE
    /\ showMainnetConfirm' = FALSE
    /\ UNCHANGED <<rev, activeTab, recipient, amountSats, feeRate, txHash,
                   utxos, selectedUtxoIds, estimatedFee, feesPending,
                   refreshPc, refreshLeft, refreshAcc, sendPc, sendRefreshLeft,
                   sendRefreshAcc, worldVars>>
    /\ UNCHANGED histVars
    /\ UNCHANGED <<walletVars, scanVars, obsVars, alerts, rawVars>>

\* r2: one answer to the refresh the second call awaits; after the last one
\* it stores the list and the selection, clears the form and runs finally.
OverlapRefreshAnswer(Oks) ==
    /\ overlapping.pc = "refreshing"
    /\ \E ok \in Oks :
        LET acc == Collected(overlapping.acc, overlapping.left, ok)
        IN  IF Len(overlapping.left) > 1
            THEN /\ overlapping' = [overlapping EXCEPT
                                      !.left = Tail(overlapping.left),
                                      !.acc = acc]
                 /\ UNCHANGED <<utxos, selectedUtxoIds, estimatedFee,
                                recipient, amountSats, sending,
                                showMainnetConfirm>>
            ELSE /\ overlapping' = NoOverlap
                 /\ utxos' = acc
                 /\ selectedUtxoIds' = ConfirmedIds(acc)
                 /\ recipient' = ""
                 /\ amountSats' = NoAmount
                 /\ sending' = FALSE
                 /\ showMainnetConfirm' = FALSE
                 /\ estimatedFee' = EstimateFee(rev, acc, ConfirmedIds(acc),
                                                NoAmount, "", feeRate)
    /\ UNCHANGED <<rev, activeTab, feeRate, txHash, sendError, feesPending,
                   refreshPc, refreshLeft, refreshAcc, sendPc, sendRefreshLeft,
                   sendRefreshAcc, worldVars>>
    /\ maxHeld' = FALSE /\ UNCHANGED <<refreshLog, lastRefresh>>
    /\ UNCHANGED <<walletVars, scanVars, obsVars, alerts, rawVars>>


Next ==
    \/ SetPassphrase
    \/ HandleCreate
    \/ HandleImport
    \/ NextReceiveAddress
    \/ ClearWallet
    \/ SetNetwork
    \/ ScanLookup(PlainAnswers)
    \/ ScanFinish(PlainAnswers)
    \/ Reload

\* The whole wallet: every handler, interleaved with the scan in flight; the
\* oracle answers every lookup, with confirmed activity or with none.
Spec == Init /\ [][Next]_vars

\* ------------------------------------------------------------------------
\* RawBroadcast
\* ------------------------------------------------------------------------
\* Signed transactions pasted into the text area: with one, two and three
\* outputs (recipient first, change last), and their virtual sizes.
PastedTxs ==
    << [outs |-> <<[value |-> 5000]>>, vsize |-> 110],
       [outs |-> <<[value |-> 5000], [value |-> 2000]>>, vsize |-> 141],
       [outs |-> <<[value |-> 5000], [value |-> 300], [value |-> 2000]>>,
        vsize |-> 172] >>

\* Fee rates typed into the rebuild form (sat/vB, whole numbers).
RawFeeRates == {1, 3}

\* Transaction.fromBuffer and the maps of the parse effect: the outputs,
\* their total and the virtual size; null when the text is empty or does
\* not decode.
ParseTx(hex) ==
    IF hex.vsize <= 0 THEN NoParsed
    ELSE [outputs |-> hex.outs, totalOutput |-> SumValues(hex.outs),
          vsize |-> hex.vsize]

\* The parse effect, run after a render in which rawHex changed to hex.
ParseEffect(hex) ==
    /\ parsedTx' = ParseTx(hex)
    /\ editAmount' = (IF ParseTx(hex).outputs # <<>>
                      THEN AmountText(hex.outs[1].value) ELSE NoAmount)
    /\ editFeeRate' = (IF ParseTx(hex).vsize > 0 THEN AmountText(1) ELSE NoAmount)
    /\ rebuildError' = ""
    /\ result' = NoResult

RawPageOnly ==
    UNCHANGED <<walletVars, scanVars, obsVars, dashVars, histVars, alerts,
                overlapping>>

\* The text area's onChange
SetRawHex(Pasted) ==
    /\ \E k \in 1..Len(Pasted) :
          Pasted[k] # rawHex /\ rawHex' = Pasted[k] /\ ParseEffect(Pasted[k])
    /\ UNCHANGED <<broadcasting, rebuilds, worldVars>>
    /\ RawPageOnly

\* The amount input of the rebuild form: an amount that leaves one of
\* Cases of the parsed total, or 0.
SetEditAmount(Cases) ==
    /\ parsedTx # NoParsed
    /\ \E a \in {AmountText(0)}
                \cup {AmountText(parsedTx.totalOutput - c) : c \in Cases} :
          a # editAmount /\ editAmount' = a
    /\ UNCHANGED <<rawHex, parsedTx, editFeeRate, rebuildError, broadcasting,
                   result, rebuilds, worldVars>>
    /\ RawPageOnly

\* The fee-rate input of the rebuild form
SetEditFeeRate(Rates) ==
    /\ parsedTx # NoParsed
    /\ \E f \in Rates : AmountText(f) # editFeeRate /\ editFeeRate' = AmountText(f)
    /\ UNCHANGED <<rawHex, parsedTx, editAmount, rebuildError, broadcasting,
                   result, rebuilds, worldVars>>
    /\ RawPageOnly

\* parseInt(editFeeRate || '1')
ParseRate(text) == IF text = NoAmount THEN 1 ELSE text[1]

\* approxInputTotal = totalOutput + targetFee;
\* newChange = approxInputTotal - amount - targetFee
NewChange(totalOutput, amount, targetFee) ==
    (totalOutput + targetFee) - amount - targetFee

\* rebuildTx from its try to the new hex, or to the error it throws.
Rebuild(hex, ptx, amountText, rateText) ==
    LET amount == ParseInt(amountText)
        feeRateVal == ParseRate(rateText)
        n == Len(hex.outs)
        targetFee == hex.vsize * feeRateVal
        newChange == NewChange(ptx.totalOutput, amount, targetFee)
        newOuts == [k \in 1..n |->
                      IF k = n /\ n > 1 THEN [value |-> newChange]
                      ELSE IF k = 1 THEN [value |-> amount]
                      ELSE hex.outs[k]]
    IN  IF amount <= 0 THEN [error |-> "Invalid amount", hex |-> hex]
        ELSE IF feeRateVal <= 0 THEN [error |-> "Invalid fee rate", hex |-> hex]
        ELSE IF n > 1 /\ newChange < 0
            THEN [error |-> "Insufficient funds for new fee", hex |-> hex]
        ELSE IF n > 1 /\ newChange < DUST /\ newChange > 0
            THEN [error |-> "Change below dust threshold", hex |-> hex]
        ELSE [error |-> "", hex |-> [outs |-> newOuts, vsize |-> hex.vsize]]

\* The "Rebuild Transaction" button: rebuildTx, and the parse effect when
\* the text changed.
RebuildTx ==
    /\ parsedTx # NoParsed
    /\ rebuilds < MaxRebuilds
    /\ rebuilds' = rebuilds + 1
    /\ LET b == Rebuild(rawHex, parsedTx, editAmount, editFeeRate)
       IN  IF b.error # ""
           THEN /\ rebuildError' = b.error
                /\ UNCHANGED <<rawHex, parsedTx, editAmount, editFeeRate, result>>
           ELSE IF b.hex = rawHex
           THEN /\ rebuildError' = ""
                /\ UNCHANGED <<rawHex, parsedTx, editAmount, editFeeRate, result>>
           ELSE /\ rawHex' = b.hex
                /\ ParseEffect(b.hex)
    /\ UNCHANGED <<broadcasting, worldVars>>
    /\ RawPageOnly

\* handleBroadcast up to `await axios.post(...)`
HandleBroadcast ==
    /\ ~broadcasting
    /\ rawHex # EmptyHex
    /\ posts < MaxPosts
    /\ broadcasting' = TRUE
    /\ result' = NoResult
    /\ posts' = posts + 1
    /\ UNCHANGED <<rawHex, parsedTx, editAmount, editFeeRate, rebuildError,
                   rebuilds, chain, lastTx, lastPlan>>
    /\ RawPageOnly

\* The explorer's answer to the POST: the transaction id, or a refusal whose
\* body handleBroadcast stores (err.response?.data first); then finally.
RawBroadcastAnswered ==
    /\ broadcasting
    /\ broadcasting' = FALSE
    /\ \/ result' = [success |-> TRUE, txid |-> <<"n", posts>>, error |-> ""]
       \/ \E body \in RejectionBodies :
             result' = [success |-> FALSE, txid |-> <<>>, error |-> body]
    /\ UNCHANGED <<rawHex, parsedTx, editAmount, editFeeRate, rebuildError,
                   rebuilds, worldVars>>
    /\ RawPageOnly

NextRaw ==
    \/ SetRawHex(PastedTxs \o <<EmptyHex, JunkHex>>)
    \/ SetEditAmount(ChangeCases)
    \/ SetEditFeeRate(RawFeeRates)
    \/ RebuildTx
    \/ HandleBroadcast
    \/ RawBroadcastAnswered

NextImport ==
    \/ HandleCreate
    \/ HandleImport
    \/ HandleImportInvalid
    \/ SetPassphrase
    \/ ClearWallet
    \/ ScanLookup(PlainAnswers)
    \/ ScanFinish(PlainAnswers)

\* Creating, importing (with texts that pass the checksum and texts that do
\* not), re-keying and clearing the wallet, with its scans.
SpecImport == Init /\ [][NextImport]_vars

NextScan ==
    \/ HandleImport
    \/ NextReceiveAddress
    \/ ScanLookup(AllAnswers)
    \/ ScanFinish(AllAnswers)
    \/ Reload

NextSend ==
    \/ SetActiveTab({"send"})
    \/ RefreshAnswer({TRUE})
    \/ ToggleUtxo
    \/ SelectAll
    \/ SetRecipient
    \/ SetAmountSats(AmountInputs)
    \/ HandleMax
    \/ SendTransaction
    \/ SendTransactionMainnet
    \/ ConfirmSend
    \/ CancelConfirm
    \/ BroadcastAccepted
    \/ BroadcastRejected
    \/ SendRefreshAnswer({TRUE})

\* A wallet restored from storage with two derived addresses, its scan still
\* waiting for the first answer, and the dashboard's handlers.
InitSend ==
    /\ WalletInit({[mnemonic |-> "m1", passphrase |-> "",
                    currentReceiveIndex |-> 1]})
    /\ DashInit

\* The send path of the dashboard, both revisions, at the default fee rate
\* and with every UTXO query answered.
SpecSend == InitSend /\ [][NextSend]_vars

\* The raw-broadcast page, the wallet at rest.
SpecRaw == InitSend /\ [][NextRaw]_vars

\* A small payment, or nothing typed.
SmallAmounts == {NoAmount, AmountText(1000)}

\* One typed payment and the page's tabs.
OneAmount == {AmountText(1000)}
OneRecipient == {"rcpt"}
PageTabs == {"receive", "send"}

NextOverlap ==
    \/ SetActiveTab({"send"})
    \/ RefreshAnswer({TRUE})
    \/ SetRecipientTo(OneRecipient)
    \/ SetAmountSats(OneAmount)
    \/ SendTransaction
    \/ SendTransactionMainnet
    \/ ConfirmSend
    \/ CancelConfirm
    \/ BroadcastAccepted
    \/ BroadcastRejected
    \/ SendRefreshAnswer({TRUE})
    \/ ConfirmSendAgain
    \/ OverlapAccepted
    \/ OverlapRejected
    \/ OverlapRefreshAnswer({TRUE})

\* The send path with the confirmation dialog's button pressed as often as
\* the page allows.
SpecOverlap == InitSend /\ [][NextOverlap]_vars

NextStale ==
    \/ SetActiveTab(PageTabs)
    \/ RefreshAnswer({TRUE})
    \/ ToggleUtxo
    \/ SetRecipientTo(OneRecipient)
    \/ SetAmountSats(OneAmount)
    \/ PassphraseInput
    \/ Disconnect
    \/ ImportOnPage
    \/ SendTransaction
    \/ SendTransactionMainnet
    \/ ConfirmSend
    \/ CancelConfirm
    \/ BroadcastAccepted
    \/ BroadcastRejected
    \/ SendRefreshAnswer({TRUE})

\* The send path while the wallet under the page changes: the passphrase is
\* edited (r1), or the wallet is disconnected and another one imported (r2).
SpecStale == InitSend /\ [][NextStale]_vars

\* The explorer's view changes without the page: an output of the wallet is
\* spent by a transaction made elsewhere.
ExternalSpend ==
    /\ Len(chain) > 1
    /\ sendPc = "idle"
    /\ \E k \in 1..Len(chain) :
        /\ chain[k].txid[1] = "t"
        /\ chain' = SelectSeq(chain, LAMBDA u : UtxoId(u) # UtxoId(chain[k]))
    /\ UNCHANGED <<posts, lastTx, lastPlan, dashVars, histVars>>
    /\ WalletUntouched

NextRefresh ==
    \/ SetActiveTab(PageTabs)
    \/ RefreshClick
    \/ RefreshAnswer(BOOLEAN)
    \/ SetRecipientTo(OneRecipient)
    \/ SetAmountSats(OneAmount)
    \/ SendTransaction
    \/ SendTransactionMainnet
    \/ ConfirmSend
    \/ CancelConfirm
    \/ BroadcastAccepted
    \/ BroadcastRejected
    \/ SendRefreshAnswer(BOOLEAN)
    \/ ExternalSpend

\* The UTXO tracker: refreshes from the tab, the button and a send, with
\* queries that fail, and outputs spent by the page and from elsewhere.
SpecRefresh == InitSend /\ [][NextRefresh]_vars

NextFee ==
    \/ SetActiveTab({"send"})
    \/ RefreshAnswer({TRUE})
    \/ ToggleUtxo
    \/ SelectAll
    \/ SetRecipient
    \/ SetAmountSats(SmallAmounts)
    \/ SetFeeRate
    \/ FeesFetched
    \/ SendTransaction
    \/ SendTransactionMainnet
    \/ ConfirmSend
    \/ CancelConfirm
    \/ BroadcastAccepted
    \/ BroadcastRejected
    \/ SendRefreshAnswer({TRUE})

\* The send path with small payments at every fee rate.
SpecFee == InitSend /\ [][NextFee]_vars

\* The discovery scan under every answer of the oracle (confirmed activity,
\* mempool-only activity, none, failed lookup), the wallet left alone but for
\* nextReceiveAddress, import into an empty wallet and page reloads.
SpecScan == Init /\ [][NextScan]_vars

\* ------------------------------------------------------------------------
\* Discovery scan: properties
\* ------------------------------------------------------------------------
\* A step in which the scan in flight receives the answer to one lookup.
LookupStep == lookups' = lookups + 1
\* A step in which the scan in flight completes and writes its result.
FinishStep == scanPc = "await" /\ scanPc' = "done"

\* C1: lookups are issued in index order from 0; consecutiveUnused is reset
\* to 0 when the queried address reports activity and incremented by one
\* otherwise; the scan stops exactly when consecutiveUnused reaches GAP_LIMIT,
\* so it ends after exactly GAP_LIMIT misses past the highest used index
\* (highest used index 3: 24 lookups, the last 20 of them misses at 4..23).
C1_TallyAndStop ==
    /\ [][LookupStep =>
            /\ lastLookupIndex' = lookups
            /\ (lastResponse' = "chain" => consecutiveUnused' = 0)
            /\ (lastResponse' # "chain" =>
                    consecutiveUnused' = consecutiveUnused + 1)
            /\ (scanPc' = "done" <=> consecutiveUnused' = GAP_LIMIT)]_vars
    /\ [](scanPc = "await" => consecutiveUnused < GAP_LIMIT)
    /\ [](scanPc = "done" =>
            /\ consecutiveUnused = GAP_LIMIT
            /\ maxUsedIndex = highestReported
            /\ lookups = highestReported + 1 + GAP_LIMIT)

C1_Witness ==
    /\ scanPc = "done"
    /\ maxUsedIndex = 3
    /\ lookups = 24
    /\ lastLookupIndex = 23
    /\ consecutiveUnused = GAP_LIMIT

\* C2: when a scan has completed with highest used index h, every index
\* h+1 .. h+GAP_LIMIT was queried during that scan (lookups cover
\* 0 .. h+GAP_LIMIT in order) and none of them reported activity.
C2_GapAfterHighestUsed ==
    scanPc = "done" =>
        /\ lookups = lastLookupIndex + 1
        /\ lastLookupIndex >= maxUsedIndex + GAP_LIMIT
        /\ highestReported <= maxUsedIndex

C2_Witness ==
    /\ scanPc = "done"
    /\ maxUsedIndex = 2
    /\ highestReported = 2
    /\ lastLookupIndex = 2 + GAP_LIMIT

\* C3 (as claimed): the index written by a completed scan is
\* highest-used-index + GAP_LIMIT + LOOKAHEAD, with -1 for "none found".
C3_BoundaryFormula ==
    [][FinishStep =>
        currentReceiveIndex' = maxUsedIndex' + GAP_LIMIT + LOOKAHEAD]_vars

\* C4 (as claimed): after a scan completes with highest used index h the
\* address list holds the scanned wallet's addresses 0 .. h+GAP_LIMIT, and
\* nextReceiveAddress only lengthens the list.
C4_TailAfterScan ==
    /\ [][FinishStep =>
            /\ Len(allAddresses') >= maxUsedIndex' + GAP_LIMIT + 1
            /\ \A i \in 0..(maxUsedIndex' + GAP_LIMIT) :
                   allAddresses'[i + 1] = AddressAt(scanRoot, i)]_vars
    /\ [][(currentReceiveIndex' = currentReceiveIndex + 1
            /\ UNCHANGED <<root, scanVars>>) =>
                Len(allAddresses') >= Len(allAddresses)]_vars

\* C5 (as claimed): a scan never lowers the receive index and never removes
\* an address from the list.
C5_ScanOnlyExtends ==
    [][FinishStep =>
        /\ currentReceiveIndex' >= currentReceiveIndex
        /\ \A k \in 1..Len(allAddresses) :
               /\ k <= Len(allAddresses')
               /\ allAddresses'[k] = allAddresses[k]]_vars

\* C6: a failed lookup counts as a miss (consecutiveUnused + 1, highest used
\* index unchanged) and the scan goes on unless the gap limit is reached; a
\* scan whose lookups all fail ends after exactly GAP_LIMIT lookups with
\* highest used index -1; a scan in flight can always take its next step and
\* never runs more than GAP_LIMIT lookups past the last index that reported
\* activity.
C6_FailedLookupCounts ==
    /\ [][(LookupStep /\ lastResponse' = "fail") =>
            /\ consecutiveUnused' = consecutiveUnused + 1
            /\ maxUsedIndex' = maxUsedIndex
            /\ (consecutiveUnused' < GAP_LIMIT => scanPc' = "await")]_vars
    /\ []((allFailed /\ scanPc = "done") =>
            (lookups = GAP_LIMIT /\ maxUsedIndex = -1))
    /\ []((allFailed /\ scanPc = "await") => lookups < GAP_LIMIT)
    /\ [](scanPc = "await" =>
            /\ lookups < highestReported + 1 + GAP_LIMIT
            /\ ENABLED (ScanLookup(AllAnswers) \/ ScanFinish(AllAnswers)))

C6_Witness ==
    /\ scanPc = "done"
    /\ allFailed
    /\ lastResponse = "fail"
    /\ lookups = GAP_LIMIT
    /\ maxUsedIndex = -1

\* C7 (as claimed): the highest used index of a completed scan is the
\* highest queried index whose address had any activity, confirmed or in the
\* mempool.
C7_MempoolCountsAsUsed ==
    scanPc = "done" => maxUsedIndex = highestEverUsed

\* The messages performSend throws when the inputs do not cover amount + fee.
InsufficientMessages ==
    {"Insufficient funds (including fee)",
     "Outputs are spending more than inputs (check amount + fee)"}

\* A call of performSend that gets past the amount and selection checks.
SendAttempt ==
    /\ PerformSend
    /\ ParseInt(amountSats) > 0
    /\ Selected(utxos, selectedUtxoIds) # <<>>

\* The step on which performSend reaches the broadcast with a signed
\* transaction.
SendProceeds == sendPc = "idle" /\ sendPc' = "posting"

\* C8: a call of performSend whose selected inputs do not cover amount + fee
\* ends with an insufficient-funds error and builds, signs and posts nothing;
\* a call that proceeds does so with the plan (totalInput, amount, fee) of
\* the form's state and totalInput >= amount + fee, and the transaction in
\* flight spends exactly that total and pays exactly that amount.
C8_FundedOrRejected ==
    /\ [][(SendAttempt /\ TotalInput < ParseInt(amountSats) + ChargedFee)
            => /\ sendError' \in InsufficientMessages
               /\ sendPc' = "idle"
               /\ posts' = posts
               /\ lastTx' = NoTx]_vars
    /\ [][SendProceeds
            => /\ TotalInput >= ParseInt(amountSats) + ChargedFee
               /\ lastPlan'.totalInput = TotalInput
               /\ lastPlan'.amount = ParseInt(amountSats)
               /\ lastPlan'.fee = ChargedFee
               /\ posts' = posts + 1]_vars
    /\ [](sendPc = "posting"
            => /\ lastPlan.totalInput >= lastPlan.amount + lastPlan.fee
               /\ SumValues(lastTx.inputs) = lastPlan.totalInput
               /\ lastTx.outputs[1].value = lastPlan.amount)
    /\ [](sendPc # "posting" => lastTx = NoTx)

\* C8 witness: after one send has been broadcast, a second one whose inputs
\* fall short of amount + fee has been rejected.
C8_Witness ==
    /\ posts = 1
    /\ sendPc = "idle"
    /\ sendError \in InsufficientMessages
    /\ ParseInt(amountSats) > 0
    /\ TotalInput > 0
    /\ TotalInput < ParseInt(amountSats) + ChargedFee

\* C9 (as claimed): a call of performSend with 0 < change <= 546 fails with
\* the dust-change error and posts nothing, and a transaction in flight has
\* a change output only when its change exceeds 546.
C9_DustChangeRejected ==
    /\ [][(SendAttempt /\ TotalInput - ParseInt(amountSats) - ChargedFee > 0
                       /\ TotalInput - ParseInt(amountSats) - ChargedFee <= DUST)
            => /\ sendError' = "Change below dust threshold"
               /\ sendPc' = "idle"
               /\ posts' = posts]_vars
    /\ [](sendPc = "posting" /\ Len(lastTx.outputs) > 1 => lastPlan.change > DUST)

\* C10 (as claimed): in every send that proceeds the change
\* totalInput - amount - fee is zero, with no change output, or at least 546.
C10_ChangeZeroOrAboveDust ==
    sendPc = "posting"
        => \/ lastPlan.change = 0 /\ Len(lastTx.outputs) = 1
           \/ lastPlan.change >= DUST

\* The previous outputs and values a transaction's inputs carry, in order.
Outpoints(ins) == [k \in 1..Len(ins) |->
                     [txid |-> ins[k].txid, vout |-> ins[k].vout,
                      value |-> ins[k].value]]

\* C11 (as claimed): a send that proceeds has built a transaction whose
\* inputs are exactly the selected UTXOs with their recorded values, whose
\* outputs sum to amount + C for C = totalInput - amount - fee, and which
\* therefore pays exactly the computed fee.
C11_OutputsBalance ==
    [][SendProceeds
        => /\ lastPlan'.change = TotalInput - ParseInt(amountSats) - ChargedFee
           /\ Outpoints(lastTx'.inputs)
                = Outpoints(Selected(utxos, selectedUtxoIds))
           /\ SumValues(lastTx'.outputs) = ParseInt(amountSats) + lastPlan'.change
           /\ SumValues(lastTx'.inputs) - SumValues(lastTx'.outputs)
                = ChargedFee]_vars

\* C12 (as claimed): a send of the amount handleMax has written, for the
\* selection and fee rate it was pressed with and a valid recipient entered
\* before or after, proceeds with amount = totalInput - fee for the fee it
\* charges, zero change and no change output.
C12_MaxLeavesZeroChange ==
    [][(SendAttempt /\ maxHeld /\ ValidAddress(recipient))
        => /\ ParseInt(amountSats) = TotalInput - ChargedFee
           /\ SendProceeds
           /\ lastPlan'.change = 0
           /\ Len(lastTx'.outputs) = 1]_vars

\* The number of outputs the estimate assumes: r2 counts the change output
\* once a recipient is entered, r1 always counts two.
AssumedOutputs == IF rev = "r2" /\ recipient = "" THEN 1 ELSE 2

\* Twice the linear size model W_in * inputs + W_out * outputs + overhead:
\* weights 57.5, 43, 10.5 in r2 and 68, 43, 11 in r1.
TwiceLinearSize(n, m) ==
    IF rev = "r2" THEN 115 * n + 86 * m + 21 ELSE 136 * n + 86 * m + 22

\* C13 (as claimed): with inputs selected, the estimated fee is
\* ceil(feeRate * vbytes) for vbytes the linear function of the number of
\* selected inputs and of outputs.
C13_LinearFee ==
    Len(Selected(utxos, selectedUtxoIds)) > 0
        => estimatedFee =
             CeilDiv(feeRate * TwiceLinearSize(Len(Selected(utxos, selectedUtxoIds)),
                                               AssumedOutputs), 20)

\* The estimate is non-decreasing in the number of inputs, in the number of
\* outputs (a recipient entered or not) and in the fee rate.
FeeMonotone ==
    \A n \in 0..MaxInputs, rate \in 0..MaxFeeRate, rcpt \in {"", "rcpt"} :
        /\ FeeForR2(n, rcpt, rate) <= FeeForR2(n + 1, rcpt, rate)
        /\ FeeForR2(n, rcpt, rate) <= FeeForR2(n, rcpt, rate + 1)
        /\ FeeForR2(n, "", rate) <= FeeForR2(n, "rcpt", rate)
        /\ FeeForR1(n, AmountText(1), rcpt, rate)
            <= FeeForR1(n + 1, AmountText(1), rcpt, rate)
        /\ FeeForR1(n, AmountText(1), rcpt, rate)
            <= FeeForR1(n, AmountText(1), rcpt, rate + 1)
        /\ FeeForR1(n, AmountText(1), "", rate)
            <= FeeForR1(n, AmountText(1), "rcpt", rate)

\* The states in which the page shows a fee estimate: an input is selected
\* and, in r1, a positive amount and a recipient are entered.
EstimateShown ==
    /\ Len(Selected(utxos, selectedUtxoIds)) > 0
    /\ rev = "r1" => (ParseInt(amountSats) > 0 /\ recipient # "")

\* ceil(feeRate * vbytes) for vbytes the linear size rounded up to a whole
\* number.
RoundedFee ==
    CeilDiv(feeRate * CeilDiv(TwiceLinearSize(Len(Selected(utxos, selectedUtxoIds)),
                                              AssumedOutputs), 2), 10)

\* C13 (amended): whenever the page shows an estimate it is
\* ceil(feeRate * vbytes) for vbytes the linear size rounded up to a whole
\* number, and otherwise it is 0; the estimate is non-decreasing in input
\* count, output count and fee rate; and a send that proceeds charges the
\* estimate for the inputs selected at that moment.
C13_FeeEstimate ==
    /\ [](estimatedFee = IF EstimateShown THEN RoundedFee ELSE 0)
    /\ [](FeeMonotone)
    /\ [][SendProceeds => (EstimateShown /\ lastPlan'.fee = RoundedFee)]_vars

\* C13 witness: a send of two inputs at 1.5 sat/vB is in flight in r2 and
\* charges ceil(1.5 * 212) = 318.
C13_Witness ==
    /\ sendPc = "posting"
    /\ rev = "r2"
    /\ feeRate = 15
    /\ Len(lastTx.inputs) = 2
    /\ lastPlan.fee = 318

\* Replace-by-fee is signalled by a sequence number below 0xfffffffe; in the
\* 32-bit two's complement reading used here the two numbers not below it
\* are -2 (0xfffffffe) and -1 (0xffffffff).
RbfEnabled(sequence) == sequence # -1 /\ sequence # -2

\* C14: every input of a transaction built by a send references the
\* selected UTXO's previous output, carries that UTXO's script and value as
\* its witness UTXO, and signals replace-by-fee.
C14_InputsRbf ==
    [][SendProceeds
        => LET selected == Selected(utxos, selectedUtxoIds)
           IN  /\ Len(lastTx'.inputs) = Len(selected)
               /\ \A k \in 1..Len(selected) :
                    /\ lastTx'.inputs[k].txid = selected[k].txid
                    /\ lastTx'.inputs[k].vout = selected[k].vout
                    /\ lastTx'.inputs[k].script = selected[k].address
                    /\ lastTx'.inputs[k].value = selected[k].value
                    /\ RbfEnabled(lastTx'.inputs[k].sequence)]_vars

\* A selected UTXO's address is not in the wallet's derived address list.
StaleSelected ==
    \E k \in 1..Len(Selected(utxos, selectedUtxoIds)) :
        IndexOfAddress(Selected(utxos, selectedUtxoIds)[k].address) = -1

\* The errors with which performSend reports that no key is found.
KeyNotFoundMessages == {"UTXO address not in wallet", "Failed to derive key"}

\* C15: a send whose selection includes a UTXO of an address that is not in
\* the wallet's current address list fails with a key-not-found error, and
\* nothing is handed to the explorer.
C15_KeyNotFound ==
    [][(SendAttempt /\ StaleSelected)
        => /\ sendError' \in KeyNotFoundMessages
           /\ ~SendProceeds
           /\ posts' = posts]_vars

\* The addresses that hold an output on the chain.
ActiveAddresses == {chain[j].address : j \in 1..Len(chain)}

\* C16: whenever a send adds a change output (every output after the
\* recipient's), it pays to an address without prior activity; so the change
\* of a second send never goes where the first send's change went.
C16_FreshChangeAddress ==
    [][SendProceeds
        => \A k \in 2..Len(lastTx'.outputs) :
             lastTx'.outputs[k].address \notin ActiveAddresses]_vars

\* The step in which the page's refresh returns and its result is stored.
RefreshCompletes == refreshPc = "fetching" /\ refreshPc' = "idle"

\* The outputs of the answered queries of a log, each tagged with the
\* address asked, in the order asked.
RECURSIVE LogUnion(_)
LogUnion(log) ==
    IF log = <<>> THEN <<>>
    ELSE (IF Head(log).ok THEN Tagged(Head(log).address, Head(log).data)
          ELSE <<>>) \o LogUnion(Tail(log))

\* C17: a refresh asks every derived address, and what it returns is the
\* union of the outputs reported by the queries that succeeded, each tagged
\* with the address asked; a failed query adds nothing and stops nothing.
C17_RefreshUnion ==
    [][RefreshCompletes
        => /\ [k \in 1..Len(refreshLog') |-> refreshLog'[k].address] = allAddresses
           /\ utxos' = LogUnion(refreshLog')]_vars

\* C17 witness: a refresh has returned the outputs of the second address
\* although the query of the first address failed.
C17_Witness ==
    /\ refreshPc = "idle"
    /\ Len(refreshLog) = 2
    /\ ~refreshLog[1].ok
    /\ refreshLog[2].ok
    /\ lastRefresh.log = refreshLog
    /\ lastRefresh.utxos # <<>>
    /\ utxos = lastRefresh.utxos

\* The list is ordered by derivation index of the owning address, and the
\* outputs of one address keep the order of the explorer's answer.
StableOrder(us, log) ==
    /\ \A i, j \in 1..Len(us) :
          i < j => IndexOfAddress(us[i].address) <= IndexOfAddress(us[j].address)
    /\ \A k \in 1..Len(log) :
          log[k].ok => SelectSeq(us, LAMBDA u : u.address = log[k].address)
                         = Tagged(log[k].address, log[k].data)

\* C18: a refresh that gets the answers the refresh before it got returns
\* the same list in the same order and leaves the same default selection;
\* the order is by derivation index, then the explorer's.
C18_RefreshIdempotent ==
    [][RefreshCompletes
        => /\ StableOrder(utxos', refreshLog')
           /\ (lastRefresh.log # <<>> /\ refreshLog' = lastRefresh.log)
                => /\ utxos' = lastRefresh.utxos
                   /\ selectedUtxoIds' = lastRefresh.selected]_vars

\* C18 witness: two refreshes in a row got the same answers, with outputs
\* of two addresses.
C18_Witness ==
    /\ lastRefresh.repeats
    /\ Len(lastRefresh.utxos) = 2
    /\ lastRefresh.utxos[1].address # lastRefresh.utxos[2].address
    /\ utxos = lastRefresh.utxos

\* The step in which a send that was broadcast ends.
SendDone == sendPc # "idle" /\ sendPc' = "idle" /\ txHash' # NoTxHash

TrackedIds == {UtxoId(utxos[k]) : k \in 1..Len(utxos)}

\* C19: when a broadcast send ends, no output it consumed is tracked or
\* selected (r1 ends with the explorer's answer, the transaction still at
\* hand; r2 ends with its refresh, after which only outputs the explorer
\* lists may be tracked); and when a refresh returns, what is tracked is
\* what the refresh reported and only that is selected.
C19_SpentRemoved ==
    /\ [][SendDone
            => SpentIds(lastTx) \cap (TrackedIds' \cup selectedUtxoIds') = {}]_vars
    /\ [][(SendDone /\ rev = "r2")
            => /\ TrackedIds' \subseteq {UtxoId(chain'[k]) : k \in 1..Len(chain')}
               /\ selectedUtxoIds' \subseteq TrackedIds']_vars
    /\ [][RefreshCompletes
            => /\ utxos' = LogUnion(refreshLog')
               /\ selectedUtxoIds' \subseteq TrackedIds']_vars

\* The step in which a send learns that the explorer refused its
\* transaction.
Refused == sendPc = "posting" /\ sendError' # ""

\* C20: when the explorer refuses the transaction, the send ends in an
\* error state that carries the explorer's error body verbatim, records no
\* transaction id and issues no further POST.
C20_RefusalVerbatim ==
    [][Refused
        => /\ sendError' \in RejectionBodies
           /\ sendPc' = "idle"
           /\ txHash' = NoTxHash
           /\ posts' = posts]_vars

\* C21: an import of a text that fails the checksum (the page alerts)
\* leaves mnemonic, passphrase, receive index, root, the derived addresses
\* and the stored record as they were.
C21_InvalidImportNoChange ==
    [][alerts' # alerts
        => UNCHANGED <<mnemonic, passphrase, currentReceiveIndex, root,
                       allAddresses, visibleAddresses, storage>>]_vars

\* C21 witness: an import has been refused after a wallet was cleared, and
\* no passphrase, address or stored record is there.
C21_Witness ==
    /\ alerts = 1
    /\ mnemonic = NoMnemonic
    /\ passphrase = ""
    /\ allAddresses = <<>>
    /\ storage = NoStorage
    /\ lookups > 0

\* A step of rebuildTx with a parsed transaction, and one that succeeds.
RebuildStep == rebuilds' = rebuilds + 1
RebuildOk == RebuildStep /\ rebuildError' = ""

\* The change the rebuild is to leave: the original total output, less the
\* edited amount and the fee at the target rate.
TargetChange ==
    parsedTx.totalOutput - ParseInt(editAmount)
        - rawHex.vsize * ParseRate(editFeeRate)

\* C22: a rebuild (of a transaction with a change output, with a positive
\* amount and rate) is rejected with the insufficient-funds error when the
\* recomputed change is negative and with the dust error when it is in
\* 1..546; a rejected rebuild leaves the text and the parsed transaction.
C22_RebuildRejects ==
    [][(RebuildStep /\ Len(rawHex.outs) > 1 /\ ParseInt(editAmount) > 0
            /\ ParseRate(editFeeRate) > 0)
        => /\ TargetChange < 0
                => rebuildError' = "Insufficient funds for new fee"
           /\ (TargetChange > 0 /\ TargetChange <= DUST)
                => rebuildError' = "Change below dust threshold"
           /\ rebuildError' # "" => UNCHANGED <<rawHex, parsedTx>>]_vars

\* C23: after a successful rebuild the first output holds the edited amount
\* and the last output the change re-derived from the target fee rate,
\* original total - amount - vsize * rate.
C23_RebuildChange ==
    [][RebuildOk
        => /\ rawHex'.outs[1].value = ParseInt(editAmount)
           /\ Len(rawHex.outs) > 1
                => rawHex'.outs[Len(rawHex'.outs)].value = TargetChange]_vars

\* C29: a successful rebuild never leaves outputs worth more than the
\* original total output, whatever the number of outputs, and rebuilding
\* the result with the same amount and rate gives the same transaction.
C29_RebuildBounded ==
    [][RebuildOk
        => /\ SumValues(rawHex'.outs) <= parsedTx.totalOutput
           /\ Rebuild(rawHex', parsedTx', editAmount, editFeeRate).hex = rawHex']_vars

\* ------------------------------------------------------------------------
\* C24: the cached address list
\* ------------------------------------------------------------------------
\* getKeyPairForIndex: null without a root, else the child key of the
\* current root at m/84'/1'/0'/0/index.
getKeyPairForIndex(i) ==
    IF root = NoRoot THEN "null" ELSE [root |-> root, index |-> i]

\* payments.p2wpkh({ pubkey: child.publicKey }): the address of a child key.
P2wpkh(child) == AddressAt(child.root, child.index)

\* C24: with a root present the cached address list has exactly
\* currentReceiveIndex + 1 entries, entry i is the address derived from the
\* current root at index i and getKeyPairForIndex(i) returns the key whose
\* address is entry i; with no root the list is empty.
C24_AddressList ==
    IF root = NoRoot
    THEN allAddresses = <<>>
    ELSE /\ Len(allAddresses) = currentReceiveIndex + 1
         /\ \A i \in 0..currentReceiveIndex :
               /\ allAddresses[i + 1] = AddressAt(root, i)
               /\ P2wpkh(getKeyPairForIndex(i)) = allAddresses[i + 1]

\* C24 witness: a wallet with a passphrase whose receive index was advanced
\* past the scan's result, all its addresses cached.
C24_Witness ==
    /\ root = <<"m1", "pw">>
    /\ currentReceiveIndex > GAP_LIMIT
    /\ ~isScanning
    /\ Len(allAddresses) = currentReceiveIndex + 1
    /\ allAddresses[currentReceiveIndex + 1] = AddressAt(root, currentReceiveIndex)

\* ------------------------------------------------------------------------
\* C25: the default selection
\* ------------------------------------------------------------------------
\* The refresh performSend awaits (r2) returns.
SendRefreshCompletes == sendPc = "refreshing" /\ sendPc' = "idle"

\* C25: after every completed UTXO refresh a listed UTXO is selected exactly
\* when it is confirmed and nothing else is selected; at all times the
\* selected ids are ids of tracked UTXOs.
C25_DefaultSelection ==
    /\ [](selectedUtxoIds \subseteq TrackedIds)
    /\ [][(RefreshCompletes \/ SendRefreshCompletes)
            => /\ \A k \in 1..Len(utxos') :
                    UtxoId(utxos'[k]) \in selectedUtxoIds' <=> utxos'[k].confirmed
               /\ selectedUtxoIds' \subseteq TrackedIds']_vars

\* C25 witness: a refresh has returned a confirmed and an unconfirmed UTXO
\* and left only the confirmed one selected.
C25_Witness ==
    /\ lastRefresh # NoRefresh
    /\ lastRefresh.utxos = utxos
    /\ selectedUtxoIds = lastRefresh.selected
    /\ \E j, k \in 1..Len(utxos) :
          /\ utxos[j].confirmed /\ UtxoId(utxos[j]) \in selectedUtxoIds
          /\ ~utxos[k].confirmed /\ UtxoId(utxos[k]) \notin selectedUtxoIds

\* ------------------------------------------------------------------------
\* C26, C27: a scan and the wallet that is current
\* ------------------------------------------------------------------------
\* The scan last started ran, or runs, against the current root and API base.
ScanIsCurrent == scanRoot = root /\ scanApi = ApiBase(network)

\* C26 (as claimed): the receive index written at the end of a discovery
\* scan comes from a scan of the root and the API base that are current at
\* that moment; a scan started for an earlier mnemonic, passphrase or
\* network, or before clearWallet, never writes the receive index.
C26_ScanWritesCurrent ==
    [][FinishStep => (scanRoot = root' /\ scanApi = ApiBase(network'))]_vars

\* C27 (as claimed): every change of the root or of the API base is followed
\* by a completed scan against the new root and API base, also when it
\* happens during a scan. A scan starts only in the effect that runs on a
\* change of root or apiBase, so once no scan is waiting for an answer the
\* wallet stays as it is until the user acts again: with a root present and
\* no scan in flight, the last scan must be the one of the current root and
\* API base.
C27_ScanFollowsChange ==
    (root # NoRoot /\ scanPc # "await") => ScanIsCurrent

\* ------------------------------------------------------------------------
\* C28: one send at a time
\* ------------------------------------------------------------------------
\* C28 (as claimed): at most one performSend is in progress at a time, also
\* through the confirmation dialog's button, and no two broadcasts in flight
\* submit the same UTXO.
C28_OneSendAtATime ==
    /\ (sendPc = "idle" \/ overlapping.pc = "idle")
    /\ (sendPc = "posting" /\ overlapping.pc = "posting")
          => SpentIds(lastTx) \cap SpentIds(overlapping.tx) = {}

\* ------------------------------------------------------------------------
\* C30: the UTXO list after a change of wallet
\* ------------------------------------------------------------------------
\* Every tracked UTXO belongs to an address of the derived address list.
TrackedOwned ==
    \A k \in 1..Len(utxos) :
        \E j \in 1..Len(allAddresses) : allAddresses[j] = utxos[k].address

\* C30 (as claimed): after a change of the root the tracked UTXOs, and so
\* the selected ones, all belong to addresses of the current wallet's
\* address list, and no send is attempted with a selected UTXO of another
\* wallet.
C30_NoForeignUtxos ==
    /\ [][root' # root => (TrackedOwned' /\ selectedUtxoIds' \subseteq TrackedIds')]_vars
    /\ [][SendAttempt => ~StaleSelected]_vars

====
